---- MODULE Spec2Model ----
(***************************************************************************)
(* The puzzle grid of Astral Queens: GridManager (src/src/GridManager.ts)  *)
(* driven with the puzzle layouts of AltarManager.puzzleConfigurations,    *)
(* the altars and the frame loop of the game around it (AltarManager.ts,   *)
(* Game.ts, PlayerController.ts) and the key states of InputManager        *)
(* (AudioManager.ts).                                                      *)
(*                                                                         *)
(* A cell of the grid is its regionId, fixed by createCell from the layout  *)
(* the grid is built from, and its flags hasQueen and marked.              *)
(* A queen is two things in the code: the flag cell.hasQueen, set at once  *)
(* by placeQueen, and a mesh named queen_<row>_<col>, pushed to            *)
(* this.queens when the asynchronous model load of that placement          *)
(* completes.  Both are state here, and the completion of a load is an     *)
(* action of its own.                                                      *)
(***************************************************************************)
EXTENDS Integers, FiniteSets, Sequences, Bags, TLC

(***************************************************************************)
(* Bounds of the model.                                                    *)
(***************************************************************************)
\* model loads in flight at one time
MaxPending == 1
\* on the 5x5 grid the player steps on the cells of a solution of the layout
\* and on the first MaxExtra cells beside it
MaxExtra == 2
\* the count of solved handlings of one altar is kept up to this number
MaxSolvedEvents == 2

(***************************************************************************)
(* Program constants.                                                      *)
(***************************************************************************)
\* initializeDefaultRegions: const maxRegionId = 8
maxRegionId == 8

\* AltarManager.puzzleConfigurations (row r, column c is regions[r+1][c+1])
puzzleConfigurations ==
  [ altar_1 |-> [ gridSize |-> 7, regions |->
        << <<0, 0, 0, 1, 1, 1, 1>>,
           <<2, 2, 0, 1, 1, 1, 1>>,
           <<2, 2, 0, 0, 3, 3, 3>>,
           <<2, 3, 3, 3, 4, 4, 3>>,
           <<2, 3, 5, 5, 3, 3, 3>>,
           <<2, 5, 5, 5, 6, 3, 3>>,
           <<2, 5, 5, 5, 6, 6, 6>> >> ],
    altar_2 |-> [ gridSize |-> 5, regions |->
        << <<0, 0, 2, 2, 2>>,
           <<0, 0, 2, 2, 2>>,
           <<3, 1, 1, 6, 6>>,
           <<3, 1, 1, 6, 6>>,
           <<3, 3, 1, 1, 6>> >> ],
    altar_3 |-> [ gridSize |-> 8, regions |->
        << <<0, 0, 0, 0, 5, 5, 5, 5>>,
           <<0, 1, 1, 0, 5, 6, 6, 5>>,
           <<0, 0, 1, 1, 6, 6, 7, 5>>,
           <<0, 0, 0, 2, 6, 7, 7, 5>>,
           <<0, 0, 3, 3, 3, 3, 7, 5>>,
           <<0, 0, 3, 4, 4, 3, 7, 5>>,
           <<7, 7, 3, 3, 3, 3, 7, 5>>,
           <<7, 7, 7, 7, 7, 7, 7, 5>> >> ],
    altar_4 |-> [ gridSize |-> 7, regions |->
        << <<0, 0, 0, 0, 2, 2, 2>>,
           <<0, 1, 0, 2, 2, 2, 2>>,
           <<0, 1, 2, 2, 3, 3, 2>>,
           <<2, 2, 2, 4, 4, 3, 2>>,
           <<2, 5, 5, 4, 4, 4, 4>>,
           <<2, 5, 5, 6, 4, 4, 4>>,
           <<5, 5, 6, 6, 4, 4, 4>> >> ],
    altar_5 |-> [ gridSize |-> 5, regions |->
        << <<0, 0, 0, 2, 2>>,
           <<0, 0, 2, 2, 2>>,
           <<3, 1, 1, 6, 6>>,
           <<3, 1, 1, 6, 6>>,
           <<3, 3, 1, 1, 6>> >> ],
    altar_6 |-> [ gridSize |-> 6, regions |->
        << <<0, 0, 1, 1, 1, 1>>,
           <<0, 0, 1, 2, 2, 1>>,
           <<3, 3, 1, 2, 2, 1>>,
           <<3, 4, 4, 4, 1, 1>>,
           <<3, 4, 5, 5, 5, 7>>,
           <<3, 3, 5, 6, 6, 7>> >> ] ]

(***************************************************************************)
(* Inputs of the model.                                                    *)
(***************************************************************************)
\* the layouts the grid is built from: the 5x5 layout of altar_2 under Spec,
\* the 8x8 layout of altar_3 (the one layout that uses all of the region ids
\* 0 .. maxRegionId-1) under Spec8
Layouts == {"altar_2"}
Layouts8 == {"altar_3"}

\* The cells the player steps on.  On the 5x5 grid: the cells of a placement
\* with one queen per row, column and region and no two queens diagonally
\* adjacent, then cells beside it.  On the 8x8 grid: the cells of the one
\* such placement of altar_3.
Walk5 == << <<0, 3>>, <<1, 0>>, <<2, 2>>, <<3, 4>>, <<4, 1>>,
            <<3, 3>>, <<4, 3>>, <<4, 4>>, <<0, 0>>, <<2, 1>> >>
Walk8 == << <<0, 7>>, <<1, 1>>, <<2, 5>>, <<3, 3>>, <<4, 0>>, <<5, 4>>,
            <<6, 2>>, <<7, 6>> >>

Min(a, b) == IF a < b THEN a ELSE b

Dist(a, b) == IF a < b THEN b - a ELSE a - b

PlayCells(n) ==
  IF n = 5 THEN {Walk5[i] : i \in 1..Min(Len(Walk5), 5 + MaxExtra)}
  ELSE IF n = 8 THEN {Walk8[i] : i \in 1..Len(Walk8)}
  ELSE {}

PlayCell(n, r, c) == <<r, c>> \in PlayCells(n)

\* the cells toggleMark is called on
MarkCells(n) ==
  IF n = 5 THEN {<<2, 2>>}
  ELSE IF n = 8 THEN {<<3, 3>>}
  ELSE {}

MarkCell(n, r, c) == <<r, c>> \in MarkCells(n)

(***************************************************************************)
(* State.                                                                  *)
(***************************************************************************)
VARIABLES
  gridSize,    \* this.gridSize (0: no grid built)
  layout,      \* the configuration this.cells was built from ("none": cells = [])
  hasQueen,    \* the cells <<r, c>> of this.cells with hasQueen = true
  marked,      \* the cells <<r, c>> of this.cells with marked = true
  queens,      \* this.queens: the bag of the names <<r, c>> of the queen meshes
  markMeshes,  \* this.markMeshes: the bag of the names <<r, c>> of the X marks
  loading,     \* the model loads in flight: the bag of the names <<r, c>>
  op,          \* the last step run on the grid: the method called, or
               \* "queenLoaded" for the callback of a load ("none" at first)
  ret,         \* what that call returned: "true", "false" or "void"
  notified,    \* the callbacks that step invoked, in order
  last,        \* history: the call of that step and the flags it found, kept
               \* of removeQueen on a cell with a queen and of toggleMark
  activeAltarId,  \* AltarManager.activeAltarId ("none": null)
  solved,         \* the altars whose config.solved is true
  solvedEvents,   \* per altar, how often checkPuzzleCompletion handled it as solved
  currentLevel,   \* Game.currentLevel
  gameCompleted,  \* whether Game.onGameCompleted has run
  keptCell,       \* PlayerController.currentCell while it refers to a cell of
                  \* a grid that resetGrid has discarded (noCell otherwise)
  inputMap,        \* InputManager._inputMap, per key: "undefined", "true", "false"
  prevInputMap,    \* InputManager._prevInputMap, per key
  interactPressed, \* InputManager.interactPressed
  helpPressed,     \* InputManager.helpPressed
  pressedUpdates   \* history: per key, the calls of update() since the last
                   \* event of the key that found the key pressed

gridVars == <<gridSize, layout, hasQueen, marked, queens, markMeshes, loading,
              op, ret, notified>>

gameVars == <<activeAltarId, solved, solvedEvents, currentLevel,
              gameCompleted, keptCell>>

inputVars == <<inputMap, prevInputMap, interactPressed, helpPressed,
               pressedUpdates>>

vars == <<gridSize, layout, hasQueen, marked, queens, markMeshes, loading,
          op, ret, notified, last, activeAltarId, solved, solvedEvents,
          currentLevel, gameCompleted, keptCell, inputMap, prevInputMap,
          interactPressed, helpPressed, pressedUpdates>>

\* the keys of InputManager that are followed: _interactKey and _helpKey
\* (_removeKey, _resetKey and _markKey are handled the same way)
Keys == {"e", "h"}

\* Game.setupLevels: the altars of the game
Altars == {"altar_1", "altar_2", "altar_3", "altar_4", "altar_5"}

\* the ids activateAltar is called with: the altars, and one id that has a
\* puzzle configuration and no altar
AltarIds == Altars \cup {"altar_6"}

\* parseInt(altarId.split('_')[1])
altarNumber ==
  [altar_1 |-> 1, altar_2 |-> 2, altar_3 |-> 3, altar_4 |-> 4, altar_5 |-> 5,
   altar_6 |-> 6]

\* Game.totalLevels
totalLevels == 5

\* currentCell = null
noCell == [row |-> -1, col |-> -1, hasQueen |-> FALSE]

\* the cells the player may stand on in the frame a puzzle is handled as
\* solved: a corner, and the first cell of each walk
StandCells(n) == {rc \in {<<0, 0>>, Walk5[1], Walk8[1]} : rc[1] < n /\ rc[2] < n}

(***************************************************************************)
(* The callbacks of GridManager.  Game.registerEvents sets the first two,  *)
(* both of type () => void: a call of them carries no argument.  Nothing   *)
(* calls setOnPuzzleSolvedCallback: onPuzzleSolvedCallback stays null.      *)
(***************************************************************************)
onQueenPlacedCallback == <<[kind |-> "queenPlaced", reason |-> "none"]>>

onInvalidPlacementCallback == <<[kind |-> "invalidPlacement", reason |-> "none"]>>

onPuzzleSolvedCallback == <<>>

\* no call to remember
noCall ==
  [call |-> "none", cell |-> <<>>, hasQueen |-> {}, marked |-> {},
   result |-> <<>>]

theCall(call, r, c) ==
  [call |-> call, cell |-> <<r, c>>, hasQueen |-> hasQueen, marked |-> marked,
   result |-> <<>>]

\* a call that returned an array
theQuery(call, array) ==
  [call |-> call, cell |-> <<>>, hasQueen |-> hasQueen, marked |-> marked,
   result |-> array]

\* the name of the mesh queen_<r>_<c>, and of the mark xMark_<r>_<c>
Name(r, c) == <<r, c>>

\* this.regions[regionId].cells: initializeDefaultRegions creates every
\* region with cells: [] and nothing adds a cell to it
RegionCells(regionId) == {}

Rows == 0..(gridSize - 1)
Cols == 0..(gridSize - 1)

(***************************************************************************)
(* GridManager.createCell, and this.cells as createGrid fills it           *)
(***************************************************************************)
createCell(row, col, regionId) ==
  [row |-> row, col |-> col, regionId |-> regionId,
   hasQueen |-> FALSE, marked |-> FALSE]

\* this.cells[r][c] now: the cell createCell made, with its flags as the
\* calls since have set them
Cell(r, c) ==
  [createCell(r, c, puzzleConfigurations[layout].regions[r + 1][c + 1])
     EXCEPT !.hasQueen = (<<r, c>> \in hasQueen),
            !.marked = (<<r, c>> \in marked)]

\* this.cells[r][c].hasQueen
HasQueen(r, c) == <<r, c>> \in hasQueen

\* the cells a scan of the rows and columns of the grid finds with a queen
QueenCells == {rc \in hasQueen : rc[1] \in Rows /\ rc[2] \in Cols}

(***************************************************************************)
(* GridManager.isValidQueenPlacement                                       *)
(***************************************************************************)
\* diagonalOffsets without the top-left neighbour
diagonalOffsets_three == {<<-1, 1>>, <<1, -1>>, <<1, 1>>}

diagonalOffsets == {<<-1, -1>>, <<-1, 1>>, <<1, -1>>, <<1, 1>>}

\* rowQueens looking at the two neighbouring columns only
rowQueens_neighboursOnly(r, c) ==
  Cardinality({col \in 0..(gridSize - 1) :
                  col # c /\ Dist(col, c) = 1 /\ HasQueen(r, col)})

rowQueens(r, c) ==
  Cardinality({col \in 0..(gridSize - 1) : col # c /\ HasQueen(r, col)})

colQueens(r, c) ==
  Cardinality({row \in 0..(gridSize - 1) : row # r /\ HasQueen(row, c)})

regionQueens(r, c) ==
  Cardinality({rc \in RegionCells(Cell(r, c).regionId) :
                  rc # <<r, c>> /\ HasQueen(rc[1], rc[2])})

diagonalQueen(r, c) ==
  \E off \in diagonalOffsets :
    LET newRow == r + off[1]
        newCol == c + off[2]
    IN  /\ newRow >= 0 /\ newRow < gridSize
        /\ newCol >= 0 /\ newCol < gridSize
        /\ HasQueen(newRow, newCol)

\* isValidQueenPlacement that takes a marked cell for a blocked one
isValidQueenPlacement_marksBlock(r, c) ==
  IF <<r, c>> \in marked \/ diagonalQueen(r, c)
  THEN FALSE
  ELSE rowQueens(r, c) = 0 /\ colQueens(r, c) = 0 /\ regionQueens(r, c) = 0

\* isValidQueenPlacement without the count of the column
isValidQueenPlacement_noColumn(r, c) ==
  IF diagonalQueen(r, c)
  THEN FALSE
  ELSE rowQueens(r, c) = 0 /\ regionQueens(r, c) = 0

isValidQueenPlacement(r, c) ==
  IF diagonalQueen(r, c)
  THEN FALSE
  ELSE rowQueens(r, c) = 0 /\ colQueens(r, c) = 0 /\ regionQueens(r, c) = 0

(***************************************************************************)
(* GridManager.isPlacementValid (the check of attemptPlaceQueen)           *)
(***************************************************************************)
isPlacementValid(r, c) ==
  IF HasQueen(r, c) THEN FALSE
  ELSE IF \E col \in 0..(gridSize - 1) : HasQueen(r, col) THEN FALSE
  ELSE IF \E row \in 0..(gridSize - 1) : HasQueen(row, c) THEN FALSE
  ELSE IF \E rc \in RegionCells(Cell(r, c).regionId) : HasQueen(rc[1], rc[2])
       THEN FALSE
  ELSE ~diagonalQueen(r, c)

(***************************************************************************)
(* GridManager.isPuzzleSolved                                              *)
(***************************************************************************)
\* this.queens.length === this.gridSize
queensLengthIsGridSize == BagCardinality(queens) = gridSize

\* the set the second scan builds, and whether that scan returns false
regionsWithQueens == {Cell(rc[1], rc[2]).regionId : rc \in QueenCells}

regionHasTwoQueens ==
  \E a \in QueenCells, b \in QueenCells :
    a # b /\ Cell(a[1], a[2]).regionId = Cell(b[1], b[2]).regionId

\* for (const region of this.regions): the ids 0 .. maxRegionId-1
\* the last loop of isPuzzleSolved left out
allRegionsHaveQueens_skipped == TRUE

allRegionsHaveQueens == \A id \in 0..(maxRegionId - 1) : id \in regionsWithQueens

\* isPuzzleSolved without its two region scans (as checkWinCondition has it)
isPuzzleSolved_countAndValidityOnly ==
  /\ queensLengthIsGridSize
  /\ \A rc \in QueenCells : isValidQueenPlacement(rc[1], rc[2])

isPuzzleSolved ==
  /\ queensLengthIsGridSize
  /\ \A rc \in QueenCells : isValidQueenPlacement(rc[1], rc[2])
  /\ ~regionHasTwoQueens
  /\ allRegionsHaveQueens

(***************************************************************************)
(* GridManager.getGridState: the cells of the grid that have a queen        *)
(***************************************************************************)
getGridState == {rc \in Rows \X Cols : Cell(rc[1], rc[2]).hasQueen}

\* the array queensPositions that getGridState fills and returns: the scan
\* of the rows and, in each row, of the columns, from the k-th cell on
RECURSIVE queensPositionsFrom(_)
queensPositionsFrom(k) ==
  IF k >= gridSize * gridSize THEN <<>>
  ELSE LET row == k \div gridSize
           col == k % gridSize
       IN  (IF Cell(row, col).hasQueen
            THEN <<[row |-> row, col |-> col]>> ELSE <<>>)
             \o queensPositionsFrom(k + 1)

\* the scan that pushes the position of every cell, queen or not
queensPositions_everyCell ==
  [k \in 1..(gridSize * gridSize) |->
     [row |-> (k - 1) \div gridSize, col |-> (k - 1) % gridSize]]

queensPositions == queensPositionsFrom(0)

(***************************************************************************)
(* Construction: no grid (cells = [], and gridSize, undefined until the    *)
(* first createGrid, bounds every loop like 0), no queen, no mark.         *)
(***************************************************************************)
Init ==
  /\ gridSize = 0
  /\ layout = "none"
  /\ hasQueen = {}
  /\ marked = {}
  /\ queens = EmptyBag
  /\ markMeshes = EmptyBag
  /\ loading = EmptyBag
  /\ op = "none"
  /\ ret = "void"
  /\ notified = <<>>
  /\ last = noCall
  /\ activeAltarId = "none"
  /\ solved = {}
  /\ solvedEvents = [id \in Altars |-> 0]
  /\ currentLevel = 1
  /\ gameCompleted = FALSE
  /\ keptCell = noCell
  /\ inputMap = [k \in Keys |-> "undefined"]
  /\ prevInputMap = [k \in Keys |-> "undefined"]
  /\ interactPressed = FALSE
  /\ helpPressed = FALSE
  /\ pressedUpdates = [k \in Keys |-> 0]

(***************************************************************************)
(* GridManager.createGrid: resetGrid() first, then the size and one cell   *)
(* from createCell for each (row, col)                                     *)
(***************************************************************************)
\* createGrid without the resetGrid() it starts with and with the old flags
\* carried into the new cells
CreateGrid_keepsFlags(id) ==
  /\ op' = "createGrid"
  /\ gridSize' = puzzleConfigurations[id].gridSize
  /\ layout' = id
  /\ ret' = "void"
  /\ notified' = <<>>
  /\ UNCHANGED <<hasQueen, marked, queens, markMeshes, loading>>

CreateGrid(id) ==
  /\ op' = "createGrid"
  /\ queens' = EmptyBag
  /\ markMeshes' = EmptyBag
  /\ gridSize' = puzzleConfigurations[id].gridSize
  /\ layout' = id
  /\ hasQueen' = {}
  /\ marked' = {}
  /\ ret' = "void"
  /\ notified' = <<>>
  /\ UNCHANGED loading

(***************************************************************************)
(* GridManager.resetGrid                                                   *)
(***************************************************************************)
\* resetGrid without this.queens = []
ResetGrid_keepsQueens ==
  /\ op' = "resetGrid"
  /\ markMeshes' = EmptyBag
  /\ layout' = "none"
  /\ hasQueen' = {}
  /\ marked' = {}
  /\ gridSize' = 0
  /\ ret' = "void"
  /\ notified' = <<>>
  /\ UNCHANGED <<queens, loading>>

ResetGrid ==
  /\ op' = "resetGrid"
  /\ queens' = EmptyBag
  /\ markMeshes' = EmptyBag
  /\ layout' = "none"
  /\ hasQueen' = {}
  /\ marked' = {}
  /\ gridSize' = 0
  /\ ret' = "void"
  /\ notified' = <<>>
  /\ UNCHANGED loading

(***************************************************************************)
(* GridManager.placeQueen: starts the load of the queen's model and sets   *)
(* cell.hasQueen; the mesh joins this.queens when the load completes.      *)
(***************************************************************************)
\* placeQueen without cell.hasQueen = true
placeQueen_noFlag(r, c) ==
  /\ loading' = loading (+) SetToBag({Name(r, c)})
  /\ hasQueen' = hasQueen

placeQueen(r, c) ==
  /\ loading' = loading (+) SetToBag({Name(r, c)})
  /\ hasQueen' = hasQueen \cup {<<r, c>>}

\* the then (or catch) callback of the load started by placeQueen
QueenLoaded(nm) ==
  /\ BagIn(nm, loading)
  /\ loading' = loading (-) SetToBag({nm})
  /\ queens' = queens (+) SetToBag({nm})
  /\ UNCHANGED <<gridSize, layout, hasQueen, marked, markMeshes>>
  /\ op' = "queenLoaded"
  /\ ret' = "void"
  /\ notified' = onQueenPlacedCallback \o
                   (IF onPuzzleSolvedCallback # <<>> /\ isPuzzleSolved'
                    THEN onPuzzleSolvedCallback ELSE <<>>)

(***************************************************************************)
(* GridManager.tryPlaceQueen                                               *)
(***************************************************************************)
\* tryPlaceQueen setting cell.hasQueen before it validates
TryPlaceQueen_flagBeforeCheck(r, c) ==
  /\ PlayCell(gridSize, r, c)
  /\ op' = "tryPlaceQueen"
  /\ IF HasQueen(r, c)
     THEN /\ ret' = "false"
          /\ notified' = onInvalidPlacementCallback
          /\ UNCHANGED <<gridSize, layout, hasQueen, marked, queens, markMeshes, loading>>
     ELSE IF ~isValidQueenPlacement(r, c)
     THEN /\ ret' = "false"
          /\ notified' = onInvalidPlacementCallback
          /\ hasQueen' = hasQueen \cup {<<r, c>>}
          /\ UNCHANGED <<gridSize, layout, marked, queens, markMeshes, loading>>
     ELSE /\ BagCardinality(loading) < MaxPending
          /\ placeQueen(r, c)
          /\ ret' = "true"
          /\ notified' = <<>>
          /\ UNCHANGED <<gridSize, layout, marked, queens, markMeshes>>

\* tryPlaceQueen without its first check, of a cell that has a queen
TryPlaceQueen_noOccupiedCheck(r, c) ==
  /\ PlayCell(gridSize, r, c)
  /\ op' = "tryPlaceQueen"
  /\ IF ~isValidQueenPlacement(r, c)
     THEN /\ ret' = "false"
          /\ notified' = onInvalidPlacementCallback
          /\ UNCHANGED <<gridSize, layout, hasQueen, marked, queens, markMeshes, loading>>
     ELSE /\ BagCardinality(loading) < MaxPending
          /\ placeQueen(r, c)
          /\ ret' = "true"
          /\ notified' = <<>>
          /\ UNCHANGED <<gridSize, layout, marked, queens, markMeshes>>

TryPlaceQueen(r, c) ==
  /\ PlayCell(gridSize, r, c)
  /\ op' = "tryPlaceQueen"
  /\ IF HasQueen(r, c)
     THEN /\ ret' = "false"
          /\ notified' = onInvalidPlacementCallback
          /\ UNCHANGED <<gridSize, layout, hasQueen, marked, queens, markMeshes, loading>>
     ELSE IF ~isValidQueenPlacement(r, c)
     THEN /\ ret' = "false"
          /\ notified' = onInvalidPlacementCallback
          /\ UNCHANGED <<gridSize, layout, hasQueen, marked, queens, markMeshes, loading>>
     ELSE /\ BagCardinality(loading) < MaxPending
          /\ placeQueen(r, c)
          /\ ret' = "true"
          /\ notified' = <<>>
          /\ UNCHANGED <<gridSize, layout, marked, queens, markMeshes>>

\* what tryPlaceQueen(cell) returns
tryPlaceQueenReturns(r, c) ==
  IF HasQueen(r, c) THEN FALSE
  ELSE IF ~isValidQueenPlacement(r, c) THEN FALSE
  ELSE TRUE

(***************************************************************************)
(* GridManager.attemptPlaceQueen                                           *)
(***************************************************************************)
AttemptPlaceQueen(r, c) ==
  /\ PlayCell(gridSize, r, c)
  /\ op' = "attemptPlaceQueen"
  /\ IF ~isPlacementValid(r, c)
     THEN /\ ret' = "false"
          /\ notified' = <<>>
          /\ UNCHANGED <<gridSize, layout, hasQueen, marked, queens, markMeshes, loading>>
     ELSE /\ BagCardinality(loading) < MaxPending
          /\ placeQueen(r, c)
          /\ ret' = "true"
          /\ notified' = <<>>
          /\ UNCHANGED <<gridSize, layout, marked, queens, markMeshes>>

(***************************************************************************)
(* GridManager.removeQueen: the queen is removed only when a mesh named    *)
(* queen_<row>_<col> is in the scene.                                      *)
(***************************************************************************)
\* removeQueen without its first check, of a cell that has no queen
RemoveQueen_noHasQueenCheck(r, c) ==
  /\ PlayCell(gridSize, r, c)
  /\ op' = "removeQueen"
  /\ notified' = <<>>
  /\ IF BagIn(Name(r, c), queens)
     THEN /\ queens' = queens (-) SetToBag({Name(r, c)})
          /\ hasQueen' = hasQueen \ {<<r, c>>}
          /\ ret' = "true"
          /\ UNCHANGED <<gridSize, layout, marked, markMeshes, loading>>
     ELSE /\ ret' = "false"
          /\ UNCHANGED <<gridSize, layout, hasQueen, marked, queens, markMeshes, loading>>

RemoveQueen(r, c) ==
  /\ PlayCell(gridSize, r, c)
  /\ op' = "removeQueen"
  /\ notified' = <<>>
  /\ IF ~HasQueen(r, c)
     THEN /\ ret' = "false"
          /\ UNCHANGED <<gridSize, layout, hasQueen, marked, queens, markMeshes, loading>>
     ELSE IF BagIn(Name(r, c), queens)
     THEN /\ queens' = queens (-) SetToBag({Name(r, c)})
          /\ hasQueen' = hasQueen \ {<<r, c>>}
          /\ ret' = "true"
          /\ UNCHANGED <<gridSize, layout, marked, markMeshes, loading>>
     ELSE /\ ret' = "false"
          /\ UNCHANGED <<gridSize, layout, hasQueen, marked, queens, markMeshes, loading>>

\* what removeQueen(cell) returns
removeQueenReturns(r, c) ==
  IF ~HasQueen(r, c) THEN FALSE
  ELSE IF BagIn(Name(r, c), queens) THEN TRUE
  ELSE FALSE

(***************************************************************************)
(* GridManager.toggleMark                                                  *)
(***************************************************************************)
ToggleMark(r, c) ==
  /\ MarkCell(gridSize, r, c)
  /\ op' = "toggleMark"
  /\ IF ~Cell(r, c).marked
     THEN /\ marked' = marked \cup {<<r, c>>}
          /\ markMeshes' = markMeshes (+) SetToBag({Name(r, c)})
     ELSE /\ marked' = marked \ {<<r, c>>}
          /\ IF BagIn(Name(r, c), markMeshes)
             THEN markMeshes' = markMeshes (-) SetToBag({Name(r, c)})
             ELSE markMeshes' = markMeshes
  /\ ret' = "void"
  /\ notified' = <<>>
  /\ UNCHANGED <<gridSize, layout, hasQueen, queens, loading>>

(***************************************************************************)
(* The two queries of the grid: getGridState and isPuzzleSolved read        *)
(* this.cells, this.queens and this.regions and assign nothing.            *)
(***************************************************************************)
GetGridState ==
  /\ op' = "getGridState"
  /\ ret' = "array"
  /\ notified' = <<>>
  /\ UNCHANGED <<gridSize, layout, hasQueen, marked, queens, markMeshes, loading>>

IsPuzzleSolved ==
  /\ op' = "isPuzzleSolved"
  /\ ret' = IF isPuzzleSolved THEN "true" ELSE "false"
  /\ notified' = <<>>
  /\ UNCHANGED <<gridSize, layout, hasQueen, marked, queens, markMeshes, loading>>

(***************************************************************************)
(* The specifications.                                                     *)
(***************************************************************************)
\* a step of the grid alone: the game's state stays, the history is dropped
Forget == last' = noCall /\ UNCHANGED <<gameVars, inputVars>>

\* a step of the grid alone whose call the history keeps
Remember(call, r, c) ==
  /\ last' = IF call = "toggleMark" \/ HasQueen(r, c)
             THEN theCall(call, r, c) ELSE noCall
  /\ UNCHANGED <<gameVars, inputVars>>

\* a query of the grid alone: the history keeps the array it returned
Returned(call, array) ==
  last' = theQuery(call, array) /\ UNCHANGED <<gameVars, inputVars>>

\* the 5x5 grid of altar_2, with every method of the grid
Next ==
  \/ \E id \in Layouts : CreateGrid(id) /\ Forget
  \/ ResetGrid /\ Forget
  \/ \E rc \in PlayCells(gridSize) : TryPlaceQueen(rc[1], rc[2]) /\ Forget
  \/ \E rc \in PlayCells(gridSize) : AttemptPlaceQueen(rc[1], rc[2]) /\ Forget
  \/ \E rc \in PlayCells(gridSize) :
       RemoveQueen(rc[1], rc[2]) /\ Remember("removeQueen", rc[1], rc[2])
  \/ \E rc \in MarkCells(gridSize) :
       ToggleMark(rc[1], rc[2]) /\ Remember("toggleMark", rc[1], rc[2])
  \/ \E nm \in BagToSet(loading) : QueenLoaded(nm) /\ Forget

Spec == Init /\ [][Next]_vars

\* the 8x8 grid of altar_3: built (createGrid resets it first) and played
\* with tryPlaceQueen and removeQueen
Next8 ==
  \/ \E id \in Layouts8 : CreateGrid(id) /\ Forget
  \/ \E rc \in PlayCells(gridSize) : TryPlaceQueen(rc[1], rc[2]) /\ Forget
  \/ \E rc \in PlayCells(gridSize) : RemoveQueen(rc[1], rc[2]) /\ Forget
  \/ \E nm \in BagToSet(loading) : QueenLoaded(nm) /\ Forget

Spec8 == Init /\ [][Next8]_vars

\* the 8x8 grid of altar_3, built once, played with tryPlaceQueen,
\* removeQueen and toggleMark and read with getGridState and isPuzzleSolved
NextMark ==
  \/ \E id \in Layouts8 : gridSize = 0 /\ CreateGrid(id) /\ Forget
  \/ \E rc \in PlayCells(gridSize) : TryPlaceQueen(rc[1], rc[2]) /\ Forget
  \/ \E rc \in PlayCells(gridSize) : RemoveQueen(rc[1], rc[2]) /\ Forget
  \/ \E rc \in MarkCells(gridSize) :
       ToggleMark(rc[1], rc[2]) /\ Remember("toggleMark", rc[1], rc[2])
  \/ \E nm \in BagToSet(loading) : QueenLoaded(nm) /\ Forget
  \/ GetGridState /\ Returned("getGridState", queensPositions)
  \/ IsPuzzleSolved /\ Forget

SpecMark == Init /\ [][NextMark]_vars

(***************************************************************************)
(* The game around the grid: the five altars, the key E and the frames of  *)
(* the render loop.                                                        *)
(***************************************************************************)
\* AltarManager.deactivateAltar
deactivateAltar ==
  IF activeAltarId = "none"
  THEN UNCHANGED <<gridVars, activeAltarId>>
  ELSE ResetGrid /\ activeAltarId' = "none"

\* what AltarManager.activateAltar(id) returns
activateAltarReturns(id) ==
  IF id \notin Altars THEN FALSE
  ELSE IF id \in solved THEN FALSE
  ELSE TRUE

\* activateAltar without the check of config.solved
ActivateAltar_solvedAgain(id) ==
  IF id \notin Altars
  THEN UNCHANGED <<gridVars, activeAltarId, solved, solvedEvents, currentLevel>>
  ELSE /\ CreateGrid(id)
       /\ activeAltarId' = id
       /\ currentLevel' = altarNumber[id]
       /\ UNCHANGED <<solved, solvedEvents>>

\* AltarManager.activateAltar: an id without altar is refused; the active
\* altar is deactivated; a solved altar is then refused; another gets its
\* grid built, becomes the active altar and the activation callback of Game
\* sets currentLevel
ActivateAltar(id) ==
  IF id \notin Altars
  THEN UNCHANGED <<gridVars, activeAltarId, solved, solvedEvents, currentLevel>>
  ELSE IF id \in solved
  THEN deactivateAltar /\ UNCHANGED <<solved, solvedEvents, currentLevel>>
  ELSE /\ CreateGrid(id)
       /\ activeAltarId' = id
       /\ currentLevel' = altarNumber[id]
       /\ UNCHANGED <<solved, solvedEvents>>

\* AltarManager.onPuzzleSolved: markAltarSolved, then deactivateAltar
onPuzzleSolved ==
  IF activeAltarId = "none"
  THEN UNCHANGED <<gridVars, activeAltarId, solved>>
  ELSE /\ solved' = solved \cup {activeAltarId}
       /\ deactivateAltar

\* the test of checkPuzzleCompletion passing for every level
isLastLevel_anyLevel == TRUE

\* checkPuzzleCompletion: this.currentLevel >= this.totalLevels
isLastLevel == currentLevel >= totalLevels

\* the cell PlayerController.currentCell refers to after the frame in which
\* the grid was reset: the cell updatePlayerState found before the reset, or
\* null off the grid
keptCells ==
  {noCell} \cup {[row |-> rc[1], col |-> rc[2], hasQueen |-> HasQueen(rc[1], rc[2])] :
                   rc \in StandCells(gridSize)}

\* checkPuzzleCompletion that marks the altar solved and leaves it active
CheckPuzzleCompletion_staysActive ==
  IF activeAltarId # "none" /\ isPuzzleSolved
  THEN /\ solvedEvents[activeAltarId] < MaxSolvedEvents
       /\ solvedEvents' =
            [solvedEvents EXCEPT ![activeAltarId] = solvedEvents[activeAltarId] + 1]
       /\ solved' = solved \cup {activeAltarId}
       /\ gameCompleted' = (gameCompleted \/ isLastLevel)
       /\ UNCHANGED <<gridVars, last, activeAltarId, currentLevel, keptCell,
                      inputVars>>
  ELSE UNCHANGED vars

\* A frame of the render loop: playerController.update, where
\* updatePlayerState sets currentCell to the cell of the grid the player
\* stands on (null when there are no cells), then
\* Game.checkPuzzleCompletion.
CheckPuzzleCompletion ==
  IF activeAltarId # "none" /\ isPuzzleSolved
  THEN /\ solvedEvents[activeAltarId] < MaxSolvedEvents
       /\ solvedEvents' =
            [solvedEvents EXCEPT ![activeAltarId] = solvedEvents[activeAltarId] + 1]
       /\ keptCell' \in keptCells
       /\ onPuzzleSolved
       /\ gameCompleted' = (gameCompleted \/ isLastLevel)
       /\ UNCHANGED <<currentLevel, last, inputVars>>
  ELSE /\ keptCell' = noCell
       /\ UNCHANGED <<gridVars, last, activeAltarId, solved, solvedEvents,
                      currentLevel, gameCompleted, inputVars>>

\* PlayerController.handleInteractionKey on a kept cell:
\* gridManager.tryPlaceQueen(this.currentCell), the cell being one of a grid
\* that is no longer this.cells
TryPlaceQueenKept ==
  /\ keptCell # noCell
  /\ op' = "tryPlaceQueen"
  /\ IF keptCell.hasQueen
     THEN /\ ret' = "false"
          /\ notified' = onInvalidPlacementCallback
          /\ UNCHANGED <<gridSize, layout, hasQueen, marked, queens, markMeshes,
                         loading, keptCell>>
     ELSE IF ~isValidQueenPlacement(keptCell.row, keptCell.col)
     THEN /\ ret' = "false"
          /\ notified' = onInvalidPlacementCallback
          /\ UNCHANGED <<gridSize, layout, hasQueen, marked, queens, markMeshes,
                         loading, keptCell>>
     ELSE /\ BagCardinality(loading) < MaxPending
          /\ loading' = loading (+) SetToBag({Name(keptCell.row, keptCell.col)})
          /\ keptCell' = [keptCell EXCEPT !.hasQueen = TRUE]
          /\ ret' = "true"
          /\ notified' = <<>>
          /\ UNCHANGED <<gridSize, layout, hasQueen, marked, queens, markMeshes>>
  /\ last' = noCall
  /\ UNCHANGED <<activeAltarId, solved, solvedEvents, currentLevel,
                 gameCompleted, inputVars>>

\* PlayerController.handleInteractionKey off the grid, near the altar id:
\* activateAltar(id), then currentCell = null
KeyE_Altar(id) ==
  /\ keptCell = noCell
  /\ ActivateAltar(id)
  /\ UNCHANGED <<last, gameCompleted, keptCell, inputVars>>

\* In the game the player steps on the cells of the walk in their order: on
\* the cells that have a queen at the head of the walk and on the one after
\* them.
Walk(n) ==
  IF n = 5 THEN SubSeq(Walk5, 1, Min(Len(Walk5), 5 + MaxExtra))
  ELSE IF n = 8 THEN Walk8
  ELSE <<>>

RECURSIVE walked(_, _)
walked(W, i) ==
  IF i > Len(W) THEN i - 1
  ELSE IF ~HasQueen(W[i][1], W[i][2]) THEN i - 1
  ELSE walked(W, i + 1)

GameCells(n) ==
  LET W == Walk(n)
  IN  {W[i] : i \in 1..Min(walked(W, 1) + 1, Len(W))}

\* the key E on a cell of the grid or near an altar, the callbacks of the
\* loads and the frames of the render loop, in any order
NextGame ==
  \/ \E id \in AltarIds : KeyE_Altar(id)
  \/ \E rc \in GameCells(gridSize) : TryPlaceQueen(rc[1], rc[2]) /\ Forget
  \/ TryPlaceQueenKept
  \/ \E nm \in BagToSet(loading) : QueenLoaded(nm) /\ Forget
  \/ CheckPuzzleCompletion

SpecGame == Init /\ [][NextGame]_vars

(***************************************************************************)
(* What the claims speak of, stated on the grid alone and apart from the   *)
(* code's own checks.                                                      *)
(***************************************************************************)
DiagonallyAdjacent(a, b) == Dist(a[1], b[1]) = 1 /\ Dist(a[2], b[2]) = 1

RegionOf(rc) == puzzleConfigurations[layout].regions[rc[1] + 1][rc[2] + 1]

\* the region ids that occur in the region matrix of the grid
RegionIdsUsed == {RegionOf(rc) : rc \in Rows \X Cols}

QueensOfRegion(id) == {rc \in hasQueen : RegionOf(rc) = id}

RowConflict(r, c) == \E q \in hasQueen : q[1] = r /\ q[2] # c

ColumnConflict(r, c) == \E q \in hasQueen : q[2] = c /\ q[1] # r

RegionConflict(r, c) ==
  \E q \in hasQueen : q # <<r, c>> /\ RegionOf(q) = RegionOf(<<r, c>>)

DiagonalConflict(r, c) == \E q \in hasQueen : DiagonallyAdjacent(q, <<r, c>>)

\* a solved grid in the words of the rules: gridSize queens, no two in one
\* row, column or region or diagonally adjacent, one in every region
SolutionOnGrid ==
  /\ gridSize > 0
  /\ Cardinality(hasQueen) = gridSize
  /\ \A a \in hasQueen, b \in hasQueen :
       a # b => /\ a[1] # b[1]
                /\ a[2] # b[2]
                /\ RegionOf(a) # RegionOf(b)
                /\ ~DiagonallyAdjacent(a, b)
  /\ \A id \in RegionIdsUsed : Cardinality(QueensOfRegion(id)) = 1

(***************************************************************************)
(* The claims.                                                             *)
(***************************************************************************)
\* C1: isPuzzleSolved() returns true in every state where exactly N cells
\* hold a queen, no two queens share a row, column or region or are
\* diagonally adjacent, and every region id used in the grid has exactly one
\* queen; so on the 5x5 layout with the region ids {0,1,2,3,6} it is true
\* right after the 5th placement of a solution.
C1_SolvedOnEverySolution == SolutionOnGrid => isPuzzleSolved

\* C2: a placement at a cell is rejected whenever some other cell with the
\* same regionId holds a queen.
C2_RegionConflictRejected ==
  [][op' = "tryPlaceQueen" =>
       \A rc \in PlayCells(gridSize) :
         (RegionConflict(rc[1], rc[2]) /\ TryPlaceQueen(rc[1], rc[2]))
           => ret' = "false"]_vars

\* C3: in every reachable state no two queen-holding cells share a row,
\* share a column or are diagonally adjacent.
C3_NoTwoQueensTouch ==
  \A a \in hasQueen, b \in hasQueen :
    a # b => /\ a[1] # b[1]
             /\ a[2] # b[2]
             /\ ~DiagonallyAdjacent(a, b)

\* a grid built, marked and filled with five queens
C3_Witness == Cardinality(hasQueen) = 5 /\ marked # {}

\* C4: a placement attempt that is rejected leaves hasQueen unchanged at
\* every cell: the grid after the call is the grid before it.
C4_RejectionChangesNothing ==
  [][(ret' = "false" /\ op' \in {"tryPlaceQueen", "attemptPlaceQueen"}) =>
       \/ /\ hasQueen' = hasQueen
          /\ marked' = marked
          /\ gridSize' = gridSize
          /\ layout' = layout
       \/ ~ \E rc \in PlayCells(gridSize) :
               TryPlaceQueen(rc[1], rc[2]) \/ AttemptPlaceQueen(rc[1], rc[2])]_vars

\* a placement has just been rejected on a grid that holds queens
C4_Witness ==
  /\ op \in {"tryPlaceQueen", "attemptPlaceQueen"}
  /\ ret = "false"
  /\ Cardinality(hasQueen) >= 2

\* C5: a placement at (r,c) is rejected whenever another cell of row r or
\* of column c holds a queen, whatever the distance between the two cells.
C5_RowColumnConflictRejected ==
  [][op' = "tryPlaceQueen" =>
       \/ ret' = "false" /\ hasQueen' = hasQueen
       \/ ~\E rc \in PlayCells(gridSize) :
             /\ RowConflict(rc[1], rc[2]) \/ ColumnConflict(rc[1], rc[2])
             /\ TryPlaceQueen(rc[1], rc[2])]_vars

\* a placement has just been rejected with the one queen at (4,1): on (4,1)
\* itself or on (4,3), two columns away in its row
C5_Witness ==
  /\ op = "tryPlaceQueen"
  /\ ret = "false"
  /\ hasQueen = {<<4, 1>>}

\* C6: a placement at (r,c) is rejected whenever one of the cells
\* (r+-1, c+-1) inside the grid holds a queen; on the 5x5 grid with the one
\* queen at (2,2), a placement at (3,3) is rejected and one cell holds a
\* queen afterwards.
C6_DiagonalConflictRejected ==
  [][op' = "tryPlaceQueen" =>
       /\ \/ ret' = "false" /\ hasQueen' = hasQueen
          \/ ~\E rc \in PlayCells(gridSize) :
                DiagonalConflict(rc[1], rc[2]) /\ TryPlaceQueen(rc[1], rc[2])
       /\ (gridSize = 5 /\ hasQueen = {<<2, 2>>} /\ TryPlaceQueen(3, 3))
              => ret' = "false" /\ Cardinality(hasQueen') = 1]_vars

\* a placement has just been rejected with the one queen at (2,2): on (2,2)
\* itself or on (3,3)
C6_Witness ==
  /\ op = "tryPlaceQueen"
  /\ ret = "false"
  /\ hasQueen = {<<2, 2>>}

\* C7: a placement at a cell that already holds a queen is rejected, and
\* the cell still holds exactly that one queen afterwards.
C7_OccupiedRejected ==
  [][op' = "tryPlaceQueen" =>
       \A rc \in PlayCells(gridSize) :
         (HasQueen(rc[1], rc[2]) /\ TryPlaceQueen(rc[1], rc[2]))
           => /\ ret' = "false"
              /\ hasQueen' = hasQueen
              /\ queens' = queens
              /\ loading' = loading]_vars

\* a placement has just been rejected with the one queen at (1,0), which no
\* other cell the player steps on conflicts with: it was a placement on (1,0)
C7_Witness ==
  /\ op = "tryPlaceQueen"
  /\ ret = "false"
  /\ hasQueen = {<<1, 0>>}
  /\ \A rc \in PlayCells(gridSize) \ {<<1, 0>>} :
       ~(\/ RowConflict(rc[1], rc[2])
         \/ ColumnConflict(rc[1], rc[2])
         \/ DiagonalConflict(rc[1], rc[2]))

\* C8: a placement at a cell that is unoccupied and has no queen in its row,
\* its column, its region or on a diagonally adjacent cell succeeds;
\* afterwards hasQueen is true at the target and unchanged at every other
\* cell, and no cell's marked flag or regionId has changed.
C8_ValidPlacementSucceeds ==
  [][op' = "tryPlaceQueen" =>
       \A rc \in PlayCells(gridSize) :
         \/ /\ ret' = "true"
            /\ hasQueen' = hasQueen \cup {rc}
            /\ marked' = marked
            /\ gridSize' = gridSize
            /\ \A x \in Rows \X Cols :
                 (Cell(x[1], x[2]).regionId)' = Cell(x[1], x[2]).regionId
         \/ ~(/\ ~HasQueen(rc[1], rc[2])
              /\ ~RowConflict(rc[1], rc[2])
              /\ ~ColumnConflict(rc[1], rc[2])
              /\ ~RegionConflict(rc[1], rc[2])
              /\ ~DiagonalConflict(rc[1], rc[2])
              /\ TryPlaceQueen(rc[1], rc[2]))]_vars

\* a placement has just succeeded on a grid with a marked cell
C8_Witness ==
  /\ op = "tryPlaceQueen"
  /\ ret = "true"
  /\ marked # {}
  /\ Cardinality(hasQueen) >= 2

\* C9: in every state where isPuzzleSolved() returns true, every region id
\* present in the grid's region matrix has exactly one queen among its
\* member cells.
C9_SolvedRegionsHaveOneQueen ==
  isPuzzleSolved =>
    \A id \in RegionIdsUsed : Cardinality(QueensOfRegion(id)) = 1

\* the 8x8 puzzle is solved
C9_Witness == isPuzzleSolved /\ gridSize = 8

\* C10: in every state where isPuzzleSolved() returns true, every row holds
\* exactly one queen and every column holds exactly one queen, so the number
\* of queen-holding cells equals gridSize.
C10_SolvedRowsColumnsHaveOneQueen ==
  isPuzzleSolved =>
    /\ \A r \in Rows : Cardinality({q \in hasQueen : q[1] = r}) = 1
    /\ \A c \in Cols : Cardinality({q \in hasQueen : q[2] = c}) = 1
    /\ Cardinality(hasQueen) = gridSize

\* the puzzle is solved, every queen's model loaded
C10_Witness ==
  /\ isPuzzleSolved
  /\ Cardinality(hasQueen) = 8
  /\ loading = EmptyBag

\* C11: removeQueen on a cell that holds a queen clears hasQueen and returns
\* true in every reachable state, also right after the placement, before the
\* model of the queen has loaded.
C11_RemovalAlwaysSucceeds ==
  [][op' = "removeQueen" =>
       \A rc \in PlayCells(gridSize) :
         (HasQueen(rc[1], rc[2]) /\ RemoveQueen(rc[1], rc[2]))
           => ret' = "true" /\ rc \notin hasQueen']_vars

\* C12: removeQueen on a cell without a queen returns false, changes no
\* cell's hasQueen or marked flag and invokes no callback.
C12_RemovalWithoutQueen ==
  [][op' = "removeQueen" =>
       \A rc \in PlayCells(gridSize) :
         \/ /\ ret' = "false"
            /\ hasQueen' = hasQueen
            /\ marked' = marked
            /\ notified' = <<>>
         \/ ~(~HasQueen(rc[1], rc[2]) /\ RemoveQueen(rc[1], rc[2]))]_vars

\* removeQueen has just returned false on a cell without a queen, on a grid
\* with a queen and a mark
C12_Witness ==
  /\ op = "removeQueen"
  /\ ret = "false"
  /\ last = noCall
  /\ hasQueen # {}
  /\ marked # {}

\* C13: in every reachable state, removeQueen on the cell (r,c) of a queen
\* followed at once by a placement at (r,c) succeeds and restores the
\* hasQueen configuration that held before the removal.
C13_RemoveThenPlaceRestores ==
  [][(/\ last.call = "removeQueen"
      /\ op' = "tryPlaceQueen"
      /\ TryPlaceQueen(last.cell[1], last.cell[2]))
       => ret' = "true" /\ hasQueen' = last.hasQueen]_vars

\* C14: building a grid of size N from a region matrix, on top of any
\* previous state, yields N*N cells, one per (row, col), each with hasQueen
\* false, marked false and the regionId of the matrix entry; the new grid
\* holds no queen.
C14_BuildYieldsFreshGrid ==
  op = "createGrid" =>
    /\ gridSize = puzzleConfigurations[layout].gridSize
    /\ Cardinality(Rows \X Cols) = gridSize * gridSize
    /\ \A r \in Rows, c \in Cols :
         Cell(r, c) =
           createCell(r, c, puzzleConfigurations[layout].regions[r + 1][c + 1])
    /\ hasQueen = {}
    /\ marked = {}
    /\ getGridState = {}
    /\ queens = EmptyBag

\* the grid has just been built over a grid on which a queen was placed: the
\* load of its model is still in flight
C14_Witness == op = "createGrid" /\ loading # EmptyBag

\* C15: no queen state of a previous grid survives a rebuild or reset: the
\* meshes in this.queens, whose number isPuzzleSolved() compares with
\* gridSize, are the queens of cells of the current grid, one each, also when
\* the load of a queen placed on the previous grid completes after the
\* rebuild.
C15_TallyCountsCurrentQueensOnly ==
  \A nm \in BagToSet(queens) : CopiesIn(nm, queens) = 1 /\ nm \in hasQueen

\* C16: resetGrid() returns the engine to the unbuilt state: afterwards
\* there are no cells, the grid size is 0, no queen and no mark remains and
\* the solution snapshot is empty.
C16_ResetReturnsToUnbuilt ==
  op = "resetGrid" =>
    /\ gridSize = 0
    /\ layout = "none"
    /\ Rows \X Cols = {}
    /\ hasQueen = {}
    /\ marked = {}
    /\ queens = EmptyBag
    /\ markMeshes = EmptyBag
    /\ getGridState = {}

\* the grid has just been reset with the load of a queen's model in flight
C16_Witness == op = "resetGrid" /\ loading # EmptyBag

\* how many of the callbacks invoked in a step are of the kind
Delivered(kind, seq) == Cardinality({i \in DOMAIN seq : seq[i].kind = kind})

\* C17: every successful placement delivers exactly one queen-placed
\* notification, and every notification is delivered within the call that
\* caused it, before that call returns, never in a later step.
C17_PlacedNotifiedOnceInCall ==
  [][/\ (op' \in {"tryPlaceQueen", "attemptPlaceQueen"} /\ ret' = "true")
          => Delivered("queenPlaced", notified') = 1
     /\ notified' # <<>> => op' # "queenLoaded"]_vars

\* the first rule a placement at (r,c) fails, in the order occupied, row,
\* column, region, adjacency
FirstFailingRule(r, c) ==
  IF <<r, c>> \in hasQueen THEN "occupied"
  ELSE IF RowConflict(r, c) THEN "row conflict"
  ELSE IF ColumnConflict(r, c) THEN "column conflict"
  ELSE IF RegionConflict(r, c) THEN "region conflict"
  ELSE IF DiagonalConflict(r, c) THEN "adjacency conflict"
  ELSE "none"

\* C18: every rejected placement delivers exactly one invalid-placement
\* notification, and it carries the reason of the first failing rule in the
\* order occupied, row conflict, column conflict, region conflict, adjacency
\* conflict.
C18_RejectionNotifiedWithReason ==
  [][(op' \in {"tryPlaceQueen", "attemptPlaceQueen"} /\ ret' = "false") =>
       \A rc \in PlayCells(gridSize) :
         (TryPlaceQueen(rc[1], rc[2]) \/ AttemptPlaceQueen(rc[1], rc[2]))
           => notified' = <<[kind |-> "invalidPlacement",
                             reason |-> FirstFailingRule(rc[1], rc[2])]>>]_vars

\* C19: the solved handling of an altar (the level-completed notification
\* and marking the altar solved) happens at most once; later frame polls and
\* later completions of queen loads do not repeat it.
C19_SolvedHandledOnce == \A id \in Altars : solvedEvents[id] <= 1

\* the puzzle has been handled as solved and the load of a queen's model has
\* completed since
C19_Witness ==
  /\ solvedEvents["altar_3"] = 1
  /\ op = "queenLoaded"
  /\ activeAltarId = "none"

\* C20: toggleMark flips the marked flag of the target cell and of no other
\* cell and leaves every hasQueen unchanged; what a placement, a removal and
\* isPuzzleSolved() return is the same before and after, so the same for
\* every assignment of marks; a second toggle on the same cell restores the
\* marked flags.
C20_MarksAreCosmetic ==
  [][op' = "toggleMark" =>
       \A rc \in MarkCells(gridSize) :
         ToggleMark(rc[1], rc[2]) =>
           /\ (rc \in marked') <=> (rc \notin marked)
           /\ marked' \ {rc} = marked \ {rc}
           /\ hasQueen' = hasQueen
           /\ isPuzzleSolved' = isPuzzleSolved
           /\ \A x \in PlayCells(gridSize) :
                /\ tryPlaceQueenReturns(x[1], x[2])' = tryPlaceQueenReturns(x[1], x[2])
                /\ removeQueenReturns(x[1], x[2])' = removeQueenReturns(x[1], x[2])
           /\ (last.call = "toggleMark" /\ last.cell = rc)
                => marked' = last.marked]_vars

\* the mark of a cell has been set and cleared again on a solved grid
C20_Witness ==
  /\ op = "toggleMark"
  /\ last.call = "toggleMark"
  /\ marked = {}
  /\ isPuzzleSolved


\* C21: the snapshot getGridState returns holds exactly the (row, col) of the
\* cells whose hasQueen is true, each once; neither getGridState nor
\* isPuzzleSolved changes a cell, a flag, the queens or the marks.
C21_QueriesReadOnly ==
  [][/\ op' = "getGridState" =>
          /\ {<<p.row, p.col>> : p \in {last'.result[i] : i \in 1..Len(last'.result)}}
               = {rc \in Rows \X Cols : HasQueen(rc[1], rc[2])}
          /\ Len(last'.result) = Cardinality(hasQueen)
          /\ UNCHANGED <<gridSize, layout, hasQueen, marked, queens,
                         markMeshes, loading>>
     /\ op' = "isPuzzleSolved" =>
          UNCHANGED <<gridSize, layout, hasQueen, marked, queens,
                      markMeshes, loading>>]_vars

\* a snapshot of three queens on the 8x8 grid, one of them still loading,
\* beside a marked cell
C21_Witness ==
  /\ op = "getGridState"
  /\ Len(last.result) = 3
  /\ Cardinality(hasQueen) = 3
  /\ loading # EmptyBag
  /\ marked # {}


\* C22: a placement made while no grid is built (before the first build, or
\* after a reset through a cell reference kept from the old grid) fails with
\* an error that differs from a placement rejection: it is never accepted and
\* never adds a queen.
C22_NoGridPlacementFails ==
  [][(gridSize = 0 /\ op' = "tryPlaceQueen") =>
       /\ ret' = "error"
       /\ notified' = <<>>
       /\ loading' = loading
       /\ keptCell' = keptCell]_vars


\* two cells that may not both hold a queen: the same cell, or cells of one
\* row, one column or one region, or diagonal neighbours
Conflicts(q, rc) ==
  \/ q = rc
  \/ q[1] = rc[1]
  \/ q[2] = rc[2]
  \/ RegionOf(q) = RegionOf(rc)
  \/ DiagonallyAdjacent(q, rc)

\* C24: a placement call observes the results of the earlier calls on the
\* grid, also of a placement whose queen model is still loading: a placement
\* that conflicts with the queen the call just before it placed is rejected.
C24_SeesPrecedingPlacement ==
  (op = "tryPlaceQueen" /\ ret = "true") =>
    \A rc \in PlayCells(gridSize) :
      (\E q \in BagToSet(loading) \cap hasQueen : Conflicts(q, rc))
        => ~tryPlaceQueenReturns(rc[1], rc[2])


(***************************************************************************)
(* createGrid on a region matrix that does not fit the grid size or names  *)
(* a region this.regions does not have.  createGrid runs resetGrid, sets   *)
(* this.gridSize and this.cells = [], then fills the cells row by row;     *)
(* regionLayout[row][col] of a missing row and this.regions[regionId].color *)
(* of a missing region throw a TypeError out of the loop.                   *)
(***************************************************************************)
\* region matrices for a grid of size 5: one row short, one entry short in
\* the second row, and one with the region id 8 in its first entry
malformedConfigurations ==
  [ shortMatrix |-> [ gridSize |-> 5, regions |->
        << <<0, 0, 2, 2, 2>>,
           <<0, 0, 2, 2, 2>>,
           <<3, 1, 1, 6, 6>>,
           <<3, 1, 1, 6, 6>> >> ],
    shortRow |-> [ gridSize |-> 5, regions |->
        << <<0, 0, 2, 2, 2>>,
           <<0, 0, 2, 2>>,
           <<3, 1, 1, 6, 6>>,
           <<3, 1, 1, 6, 6>>,
           <<3, 3, 1, 1, 6>> >> ],
    unknownRegion |-> [ gridSize |-> 5, regions |->
        << <<8, 0, 2, 2, 2>>,
           <<0, 0, 2, 2, 2>>,
           <<3, 1, 1, 6, 6>>,
           <<3, 1, 1, 6, 6>>,
           <<3, 3, 1, 1, 6>> >> ] ]

\* the configuration a grid was built from
configurationOf(id) ==
  IF id \in DOMAIN puzzleConfigurations
  THEN puzzleConfigurations[id] ELSE malformedConfigurations[id]

\* whether the loop body of createGrid completes for the cell (row, col)
cellIsCreated(cfg, row, col) ==
  /\ row + 1 <= Len(cfg.regions)
  /\ col + 1 <= Len(cfg.regions[row + 1])
  /\ cfg.regions[row + 1][col + 1] \in 0..(maxRegionId - 1)

\* the number of cells the loop of createGrid has stored in this.cells when
\* it ends or throws, from the k-th cell on
RECURSIVE cellsCreatedFrom(_, _)
cellsCreatedFrom(cfg, k) ==
  IF k >= cfg.gridSize * cfg.gridSize THEN k
  ELSE IF ~cellIsCreated(cfg, k \div cfg.gridSize, k % cfg.gridSize) THEN k
  ELSE cellsCreatedFrom(cfg, k + 1)

\* the number of cells in this.cells
cellsBuilt ==
  IF layout = "none" THEN 0 ELSE cellsCreatedFrom(configurationOf(layout), 0)

\* GridManager.createGrid with any region matrix
CreateGridFrom(id) ==
  LET cfg == configurationOf(id)
  IN  /\ op' = "createGrid"
      /\ queens' = EmptyBag
      /\ markMeshes' = EmptyBag
      /\ gridSize' = cfg.gridSize
      /\ layout' = id
      /\ hasQueen' = {}
      /\ marked' = {}
      /\ ret' = IF cellsCreatedFrom(cfg, 0) < cfg.gridSize * cfg.gridSize
                THEN "throws" ELSE "void"
      /\ notified' = <<>>
      /\ UNCHANGED loading

\* the grid built from the bundled and from the malformed region matrices,
\* reset, and played on the cells of the walk while it is fully built
NextBuild ==
  \/ \E id \in DOMAIN puzzleConfigurations : CreateGridFrom(id) /\ Forget
  \/ \E id \in DOMAIN malformedConfigurations : CreateGridFrom(id) /\ Forget
  \/ ResetGrid /\ Forget
  \/ \E rc \in GameCells(gridSize) :
       /\ layout \in DOMAIN puzzleConfigurations
       /\ TryPlaceQueen(rc[1], rc[2])
       /\ Forget
  \/ \E nm \in BagToSet(loading) : QueenLoaded(nm) /\ Forget

SpecBuild == Init /\ [][NextBuild]_vars

\* C23: building a grid either fully applies or fully rejects: after a call
\* of createGrid, also one with a malformed region matrix (wrong dimensions,
\* or a region id without region), there is no partially populated cell
\* matrix and no grid size without its cells.
C23_BuildAllOrNothing ==
  op = "createGrid" =>
    \/ gridSize = configurationOf(layout).gridSize /\ cellsBuilt = gridSize * gridSize
    \/ gridSize = 0 /\ cellsBuilt = 0


(***************************************************************************)
(* Solving a puzzle: the grid is built once from a layout and the player   *)
(* places a queen on each cell of a solution of that layout (one queen per *)
(* row, column and region, no two diagonally adjacent), in any order; every *)
(* model load completes.                                                   *)
(***************************************************************************)
SolveCells(n) ==
  IF n = 5 THEN {Walk5[i] : i \in 1..5}
  ELSE IF n = 8 THEN {Walk8[i] : i \in 1..Len(Walk8)}
  ELSE {}

NextSolve ==
  \/ \E id \in Layouts \cup Layouts8 : gridSize = 0 /\ CreateGrid(id) /\ Forget
  \/ \E rc \in SolveCells(gridSize) :
       ~HasQueen(rc[1], rc[2]) /\ TryPlaceQueen(rc[1], rc[2]) /\ Forget
  \/ \E nm \in BagToSet(loading) : QueenLoaded(nm) /\ Forget

SpecSolve == Init /\ [][NextSolve]_vars /\ WF_vars(NextSolve)

\* C25: every bundled puzzle can be solved: on the grid freshly built from a
\* puzzle layout, a sequence of placements (here: the placements of a
\* solution of the layout, the loads completing) reaches a state in which
\* isPuzzleSolved() returns true.
C25_EveryLayoutSolvable == (gridSize # 0) ~> isPuzzleSolved


C27_RefusedActivationChangesNothing ==
  [][\A id \in AltarIds :
       (~activateAltarReturns(id) /\ KeyE_Altar(id))
         => UNCHANGED <<activeAltarId, gridSize, layout, hasQueen, queens>>]_vars

\* C28: an altar that is marked solved stays solved, and a later
\* activateAltar on it returns false, builds no grid and does not make it
\* the active altar.
C28_SolvedStaysSolved ==
  [][/\ solved \subseteq solved'
     /\ \A id \in solved :
          KeyE_Altar(id) => /\ ~activateAltarReturns(id)
                            /\ op' # "createGrid"
                            /\ gridSize' = 0
                            /\ layout' = "none"
                            /\ activeAltarId' # id]_vars

\* altar_3 is solved, another altar was activated after it, and the E key
\* near altar_3 has since deactivated that altar
C28_Witness ==
  /\ "altar_3" \in solved
  /\ currentLevel # 3
  /\ activeAltarId = "none"
  /\ op = "resetGrid"

\* C29: at most one altar is active, and the grid matches it: while an altar
\* is active the size and the region layout of the grid are those of its
\* puzzle configuration; while no altar is active the grid is unbuilt (size
\* 0, no cells, no queens).
C29_GridMatchesActiveAltar ==
  IF activeAltarId # "none"
  THEN /\ layout = activeAltarId
       /\ gridSize = puzzleConfigurations[activeAltarId].gridSize
  ELSE /\ gridSize = 0
       /\ layout = "none"
       /\ hasQueen = {}
       /\ queens = EmptyBag


(***************************************************************************)
(* InputManager (src/src/AudioManager.ts): the keyboard observer and       *)
(* update(), which the render loop calls once per frame.                   *)
(***************************************************************************)
\* the frame updates counted per key between two events of the key
MaxUpdates == 2

\* InputManager.isKeyPressed
isKeyPressed(key) == inputMap[key] = "true" /\ prevInputMap[key] # "true"

\* the keyboard observer on a KEYDOWN event of the key (the first of a press,
\* or a repeat of the keyboard while the key is held)
KeyDown(key) ==
  /\ prevInputMap' = [prevInputMap EXCEPT ![key] = inputMap[key]]
  /\ inputMap' = [inputMap EXCEPT ![key] = "true"]
  /\ pressedUpdates' = [pressedUpdates EXCEPT ![key] = 0]
  /\ UNCHANGED <<interactPressed, helpPressed>>

\* the keyboard observer on the KEYUP event of a key that is down
KeyUp(key) ==
  /\ inputMap[key] = "true"
  /\ prevInputMap' = [prevInputMap EXCEPT ![key] = inputMap[key]]
  /\ inputMap' = [inputMap EXCEPT ![key] = "false"]
  /\ pressedUpdates' = [pressedUpdates EXCEPT ![key] = 0]
  /\ UNCHANGED <<interactPressed, helpPressed>>

\* InputManager.update
Update ==
  /\ \A key \in Keys : isKeyPressed(key) => pressedUpdates[key] < MaxUpdates
  /\ interactPressed' = isKeyPressed("e")
  /\ helpPressed' = isKeyPressed("h")
  /\ pressedUpdates' =
       [key \in Keys |-> IF isKeyPressed(key)
                         THEN pressedUpdates[key] + 1 ELSE pressedUpdates[key]]
  /\ UNCHANGED <<inputMap, prevInputMap>>

NextInput ==
  \/ \E key \in Keys : KeyDown(key) /\ UNCHANGED <<gridVars, last, gameVars>>
  \/ \E key \in Keys : KeyUp(key) /\ UNCHANGED <<gridVars, last, gameVars>>
  \/ Update /\ UNCHANGED <<gridVars, last, gameVars>>

SpecInput == Init /\ [][NextInput]_vars

\* C30: an input action flag is true only in the frame update that directly
\* follows an up-to-down transition of its key: while the key stays down over
\* several updates with no further event of the key, the flag is true in at
\* most one of them.
C30_PressedInOneUpdateOnly == \A key \in Keys : pressedUpdates[key] <= 1

====
